---------------------------- MODULE Spec2Model ----------------------------
(***************************************************************************)
(* Picomerge: a replicated multi-value register with local undo and redo.  *)
(* The model follows implementation/ts/src/picomerge.ts: OpId, Clock,      *)
(* History (lobby, appliedOps, heads, the MVR resolution, the undo and     *)
(* redo stacks) and the Picomerge facade (apply/get/set/delete/undo/redo). *)
(*                                                                         *)
(* JavaScript strings are sequences of one-character strings, JavaScript   *)
(* Sets and Maps are sequences in insertion order (their iteration order   *)
(* is observable through the sort of the terminal heads).                  *)
(***************************************************************************)
EXTENDS Integers, Sequences, FiniteSets, TLC

(* ------------------------------ bounds -------------------------------- *)

\* Total number of operations the replicas generate in one behaviour.
MaxOps == 4

\* Total number of operations generated in one behaviour of the replicas with a cache.
MaxCacheOps == 5

\* Number of those operations that the second actor generates.
MaxPeerOps == 2

\* Values written by set(v).
Values == 1..(2 * (MaxOps + MaxCacheOps))

\* The replicas; each has its own actor id (a string, i.e. a sequence of characters).
Actors == {<<"A">>, <<"B">>}

(* ------------------------- strings and OpIds --------------------------- *)

\* The characters used in actor ids and stringified OpIds, in code unit order.
Alphabet == <<"0", "1", "2", "3", "4", "5", "6", "7", "8", "9", "@", "A", "B", "C">>

DigitChars == <<"0", "1", "2", "3", "4", "5", "6", "7", "8", "9">>

CharCode(c) == CHOOSE i \in 1..Len(Alphabet) : Alphabet[i] = c

IsDigit(c) == \E i \in 1..Len(DigitChars) : DigitChars[i] = c

DigitValue(c) == (CHOOSE i \in 1..Len(DigitChars) : DigitChars[i] = c) - 1

\* `${n}` for a non-negative integer n.
RECURSIVE NumberToString(_)
NumberToString(n) ==
    IF n < 10 THEN <<DigitChars[n + 1]>>
    ELSE NumberToString(n \div 10) \o <<DigitChars[(n % 10) + 1]>>

\* JavaScript's a < b on strings: lexicographic on code units, a proper prefix is smaller.
RECURSIVE StringLess(_, _)
StringLess(a, b) ==
    IF b = <<>> THEN FALSE
    ELSE IF a = <<>> THEN TRUE
    ELSE IF Head(a) = Head(b) THEN StringLess(Tail(a), Tail(b))
    ELSE CharCode(Head(a)) < CharCode(Head(b))

\* parseInt yields NaN when the string does not start with a digit.
NaN == -1

\* The value of a missing array element or record field.
UndefinedString == <<"u", "n", "d", "e", "f", "i", "n", "e", "d">>

\* str.split("@"): the pieces of str between the "@" characters.
RECURSIVE Split(_, _)
Split(str, piece) ==
    IF str = <<>> THEN <<piece>>
    ELSE IF Head(str) = "@" THEN <<piece>> \o Split(Tail(str), <<>>)
    ELSE Split(Tail(str), Append(piece, Head(str)))

\* parseInt(str, 10) on strings without sign or white space: the longest prefix of digits.
RECURSIVE ParseDigits(_, _, _)
ParseDigits(str, acc, seen) ==
    IF str = <<>> \/ ~IsDigit(Head(str)) THEN (IF seen THEN acc ELSE NaN)
    ELSE ParseDigits(Tail(str), 10 * acc + DigitValue(Head(str)), TRUE)

ParseInt(str) == ParseDigits(str, 0, FALSE)

OpIdCreate(ctr, actorId) == <<ctr, actorId>>

OpIdActor(opId) == opId[2]

OpIdCtr(opId) == opId[1]

OpIdToString(opId) == NumberToString(opId[1]) \o <<"@">> \o opId[2]

OpIdFromString(str) ==
    LET parts == Split(str, <<>>)
    IN  <<ParseInt(parts[1]), IF Len(parts) >= 2 THEN parts[2] ELSE UndefinedString>>

\* Mutant of OpIdCompare: equal counters compare as equal, whatever the actors.
OpIdCompareByCounter(a, b) ==
    LET ctrDiff == a[1] - b[1]
    IN  IF ctrDiff = 0 THEN 0 ELSE IF ctrDiff < 0 THEN -1 ELSE 1

OpIdCompare(a, b) ==
    LET ctrDiff == a[1] - b[1]
    IN  IF ctrDiff = 0
        THEN IF a[2] = b[2] THEN 0
             ELSE IF StringLess(a[2], b[2]) THEN -1 ELSE 1
        ELSE IF ctrDiff < 0 THEN -1 ELSE 1

(* ------------------------------ operations ----------------------------- *)

OpKind == [set |-> 0, restore |-> 1]

\* `undefined` as the value of a SetOp (a delete) and of the value field a RestoreOp lacks.
NoValue == 0

\* The anchor field a SetOp lacks.
NoAnchor == <<0, <<>>>>

\* lastOp before any operation was applied (null).
NoOp == [opId |-> <<0, <<>>>>, kind |-> OpKind.set, preds |-> <<>>,
         value |-> NoValue, anchor |-> NoAnchor]

SetOp(opId, preds, value) ==
    [opId |-> opId, kind |-> OpKind.set, preds |-> preds, value |-> value, anchor |-> NoAnchor]

\* Mutant of RestoreOp: a restore operation anchors its first predecessor.
RestoreOpAnchorsPred(opId, preds, anchor) ==
    [opId |-> opId, kind |-> OpKind.restore, preds |-> preds, value |-> NoValue,
     anchor |-> IF preds = <<>> THEN anchor ELSE OpIdFromString(preds[1])]

RestoreOp(opId, preds, anchor) ==
    [opId |-> opId, kind |-> OpKind.restore, preds |-> preds, value |-> NoValue, anchor |-> anchor]

\* The elements of a sequence.
Range(seq) == {seq[i] : i \in 1..Len(seq)}

\* A JavaScript Set (a sequence without repetitions): delete and add.
SetDelete(seq, x) == SelectSeq(seq, LAMBDA y : y # x)

SetAdd(seq, x) == IF x \in Range(seq) THEN seq ELSE Append(seq, x)

RECURSIVE SetDeleteAll(_, _)
SetDeleteAll(seq, xs) ==
    IF xs = <<>> THEN seq ELSE SetDeleteAll(SetDelete(seq, Head(xs)), Tail(xs))

Min(a, b) == IF a < b THEN a ELSE b

Max(a, b) == IF a > b THEN a ELSE b

(* ------------------------------ OpIdTrace ----------------------------- *)

\* OpIdTrace.compare: the first non-zero comparison over the zipped (shared) length, else 0.
RECURSIVE OpIdTraceCompareFrom(_, _, _), OpIdTraceCompareNext(_, _, _, _)
OpIdTraceCompareFrom(a, b, i) ==
    IF i > Min(Len(a), Len(b)) THEN 0
    ELSE OpIdTraceCompareNext(a, b, i, OpIdCompare(OpIdFromString(a[i]), OpIdFromString(b[i])))

OpIdTraceCompareNext(a, b, i, comparison) ==
    IF comparison # 0 THEN comparison ELSE OpIdTraceCompareFrom(a, b, i + 1)

OpIdTraceCompare(a, b) == OpIdTraceCompareFrom(a, b, 1)

\* Mutant of DescendingByTrace: the sorts are ascending.
AscendingByTrace(x, y) == OpIdTraceCompare(x[2].opIdTrace, y[2].opIdTrace)

\* The comparator both sorts use: (x, y) => OpIdTrace.compare(y.trace, x.trace).
DescendingByTrace(x, y) == OpIdTraceCompare(y[2].opIdTrace, x[2].opIdTrace)

\* Array.prototype.sort, which is stable: x goes behind every element that is not
\* greater than it under the comparator.
RECURSIVE InsertSorted(_, _)
InsertSorted(sorted, x) ==
    IF sorted = <<>> THEN <<x>>
    ELSE IF DescendingByTrace(sorted[Len(sorted)], x) <= 0 THEN Append(sorted, x)
    ELSE Append(InsertSorted(SubSeq(sorted, 1, Len(sorted) - 1), x), sorted[Len(sorted)])

RECURSIVE SortFrom(_, _)
SortFrom(sorted, rest) ==
    IF rest = <<>> THEN sorted ELSE SortFrom(InsertSorted(sorted, Head(rest)), Tail(rest))

SortByTrace(entries) == SortFrom(<<>>, entries)

(* ------------------------------- History ------------------------------ *)

\* A Map without entries.
EmptyMap == [key \in {} |-> NoOp]

MapHas(map, key) == key \in DOMAIN map

MapSet(map, key, value) == [k \in (DOMAIN map) \cup {key} |-> IF k = key THEN value ELSE map[k]]

\* Mutant of NewReplica: the replica uses the cache whatever create is asked for.
NewReplicaCached(actorId, useCache) ==
    [actorId |-> actorId, useCache |-> TRUE, ctr |-> 0,
     lobby |-> <<>>, appliedOps |-> EmptyMap, heads |-> <<>>, lastOp |-> NoOp,
     cache |-> EmptyMap, undoStack |-> <<>>, redoStack |-> <<>>,
     values |-> <<>>, terminalHeads |-> <<>>, err |-> FALSE]

\* A replica right after Picomerge.create(actorId, useCache): the clock, the history
\* and the register. err tells that the last public call threw.
NewReplica(actorId, useCache) ==
    [actorId |-> actorId, useCache |-> useCache, ctr |-> 0,
     lobby |-> <<>>, appliedOps |-> EmptyMap, heads |-> <<>>, lastOp |-> NoOp,
     cache |-> EmptyMap, undoStack |-> <<>>, redoStack |-> <<>>,
     values |-> <<>>, terminalHeads |-> <<>>, err |-> FALSE]

\* Mutant of ClockTick: the next operation gets the counter the clock stands at.
ClockTickStays(st) == OpIdCreate(st.ctr, st.actorId)

ClockTick(st) == OpIdCreate(st.ctr + 1, st.actorId)

\* Mutant of ClockSync: the clock keeps its value when an operation is applied.
ClockSyncKeeps(st, remoteCtr) == st.ctr

ClockSync(st, remoteCtr) == Max(st.ctr, remoteCtr)

\* Mutant of CurrentPreds: a new operation names no predecessor.
CurrentPredsNone(st) == <<>>

CurrentPreds(st) == st.heads

IsActorsOp(op, actorId) == OpIdActor(op.opId) = actorId

IsLocalOp(st, op) == IsActorsOp(op, st.actorId)

IsTerminalOp(op) == op.kind # OpKind.restore

IsSetOp(op) == op.kind = OpKind.set /\ op.value # NoValue

IsDeleteOp(op) == op.kind = OpKind.set /\ op.value = NoValue

\* Mutant of IsCausallyReady: a restore operation also waits for its anchor.
IsCausallyReadyWithAnchor(st, op) ==
    /\ \A i \in 1..Len(op.preds) : MapHas(st.appliedOps, op.preds[i])
    /\ op.kind = OpKind.restore => MapHas(st.appliedOps, OpIdToString(op.anchor))

\* Mutant of IsCausallyReady: every operation counts as ready.
IsCausallyReadyAlways(st, op) == TRUE

IsCausallyReady(st, op) == \A i \in 1..Len(op.preds) : MapHas(st.appliedOps, op.preds[i])

\* History.resolveToTerminalOp: follows the anchors of a restore op to a terminal op;
\* err when an anchor is not applied ("cannot resolve to terminal op").
RECURSIVE ResolveToTerminalOp(_, _)
ResolveToTerminalOp(st, op) ==
    LET anchor == OpIdToString(op.anchor)
    IN  IF ~MapHas(st.appliedOps, anchor) THEN [err |-> TRUE, op |-> NoOp]
        ELSE LET anchorOp == st.appliedOps[anchor]
             IN  IF anchorOp.kind # OpKind.restore THEN [err |-> FALSE, op |-> anchorOp]
                 ELSE ResolveToTerminalOp(st, anchorOp)

\* Mutant of CacheHits: the trace of a cache hit is not extended by the cached restore.
CacheHitsUntraced(cache, cachedPred, newMetadata) ==
    LET hit == cache[cachedPred]
    IN  [i \in 1..Len(hit) |->
            <<hit[i], [opIdTrace |-> newMetadata.opIdTrace,
                       resolutionDepth |-> newMetadata.resolutionDepth + 1]>>]

\* The entries a cache hit on cachedPred contributes, in the cached order.
CacheHits(cache, cachedPred, newMetadata) ==
    LET hit == cache[cachedPred]
    IN  [i \in 1..Len(hit) |->
            <<hit[i], [opIdTrace |-> Append(newMetadata.opIdTrace, cachedPred),
                       resolutionDepth |-> newMetadata.resolutionDepth + 1]>>]

\* Mutant of AllCacheHits: the cached lists are not spliced into the result.
AllCacheHitsNone(cache, cached, newMetadata) == <<>>

RECURSIVE AllCacheHits(_, _, _)
AllCacheHits(cache, cached, newMetadata) ==
    IF cached = <<>> THEN <<>>
    ELSE CacheHits(cache, Head(cached), newMetadata)
             \o AllCacheHits(cache, Tail(cached), newMetadata)

\* Mutant of Reverted: a restore operation resolves to its own predecessors.
RevertedOwnPreds(nextOp, anchorOp) == nextOp.preds

\* Mutant of Reverted: a redo resolves to the operation its undo had undone.
RevertedRedoTarget(nextOp, anchorOp) ==
    IF anchorOp.kind = OpKind.restore THEN <<OpIdToString(anchorOp.anchor)>>
    ELSE anchorOp.preds

\* What a restore operation pushes onto the queue: the predecessors of its anchor.
Reverted(nextOp, anchorOp) == anchorOp.preds

\* The while loop of the inner resolveToTerminalOp of add: op is the operation being
\* processed, queue holds <<opId, metadata>> pairs, result <<terminal op, metadata>> pairs.
\* err: "Impossible: Anchor operation not found in applied ops".
RECURSIVE ResolveQueue(_, _, _, _)
ResolveQueue(st, op, queue, result) ==
    IF queue = <<>> THEN [err |-> FALSE, result |-> result]
    ELSE
      LET nextOpId == Head(queue)[1]
          metadata == Head(queue)[2]
          newMetadata == [opIdTrace |-> Append(metadata.opIdTrace, nextOpId),
                          resolutionDepth |-> metadata.resolutionDepth + 1]
          nextOp == IF MapHas(st.appliedOps, nextOpId) THEN st.appliedOps[nextOpId] ELSE op
      IN  IF nextOp.kind = OpKind.set
          THEN ResolveQueue(st, op, Tail(queue), Append(result, <<nextOp, newMetadata>>))
          ELSE
            LET anchorOpIdStringified == OpIdToString(nextOp.anchor)
            IN  IF ~MapHas(st.appliedOps, anchorOpIdStringified)
                THEN [err |-> TRUE, result |-> result]
                ELSE
                  LET anchorOp == st.appliedOps[anchorOpIdStringified]
                      cached == IF st.useCache
                                THEN SelectSeq(anchorOp.preds, LAMBDA pred : MapHas(st.cache, pred))
                                ELSE <<>>
                      toResolve == IF st.useCache
                                   THEN SelectSeq(anchorOp.preds, LAMBDA pred : ~MapHas(st.cache, pred))
                                   ELSE Reverted(nextOp, anchorOp)
                  IN  ResolveQueue(st, op,
                          Tail(queue) \o [i \in 1..Len(toResolve) |-> <<toResolve[i], newMetadata>>],
                          result \o AllCacheHits(st.cache, cached, newMetadata))

\* Mutant of CacheHead: the entries of a restore head are sorted and not cached.
CacheHeadForgets(st, headOp, walk, sorted) ==
    IF walk.err THEN [err |-> TRUE, result |-> <<>>, cache |-> st.cache]
    ELSE IF st.useCache /\ headOp.kind = OpKind.restore
    THEN [err |-> FALSE, result |-> sorted, cache |-> st.cache]
    ELSE [err |-> FALSE, result |-> walk.result, cache |-> st.cache]

\* The end of the inner resolveToTerminalOp of add: with the cache in use the entries
\* of a restore head are sorted (in place) and their operations cached under the head.
CacheHead(st, headOp, walk, sorted) ==
    IF walk.err THEN [err |-> TRUE, result |-> <<>>, cache |-> st.cache]
    ELSE IF st.useCache /\ headOp.kind = OpKind.restore
    THEN [err |-> FALSE, result |-> sorted,
          cache |-> MapSet(st.cache, OpIdToString(headOp.opId),
                           [i \in 1..Len(sorted) |-> sorted[i][1]])]
    ELSE [err |-> FALSE, result |-> walk.result, cache |-> st.cache]

SortWalk(st, headOp, walk) == CacheHead(st, headOp, walk, SortByTrace(walk.result))

\* Mutant of ResolveHead: the walk from a head starts at resolutionDepth 1.
ResolveHeadFromOne(st, op, head) ==
    SortWalk(st, IF MapHas(st.appliedOps, head) THEN st.appliedOps[head] ELSE op,
             ResolveQueue(st, op,
                          <<<<head, [opIdTrace |-> <<>>, resolutionDepth |-> 1]>>>>, <<>>))

\* The inner resolveToTerminalOp of add for one head: its entries and the cache it leaves.
ResolveHead(st, op, head) ==
    SortWalk(st, IF MapHas(st.appliedOps, head) THEN st.appliedOps[head] ELSE op,
             ResolveQueue(st, op,
                          <<<<head, [opIdTrace |-> <<>>, resolutionDepth |-> 0]>>>>, <<>>))

\* [...heads].flatMap(resolve): head after head, each seeing the cache the former left.
RECURSIVE ResolveHeads(_, _, _, _), ResolveRest(_, _, _, _, _)
ResolveHeads(st, op, heads, result) ==
    IF heads = <<>> THEN [err |-> FALSE, result |-> result, cache |-> st.cache]
    ELSE ResolveRest(st, op, Tail(heads), result, ResolveHead(st, op, Head(heads)))

ResolveRest(st, op, heads, result, one) ==
    IF one.err THEN [err |-> TRUE, result |-> result, cache |-> one.cache]
    ELSE ResolveHeads([st EXCEPT !.cache = one.cache], op, heads, result \o one.result)

\* Mutant of SortResolved: the resolved heads stay in the order of the head set.
SortResolvedUnsorted(resolved) ==
    [err |-> resolved.err, cache |-> resolved.cache,
     terminalHeads |-> IF resolved.err THEN <<>> ELSE resolved.result]

\* The sort of the resolved heads by their opIdTrace, descending.
SortResolved(resolved) ==
    [err |-> resolved.err, cache |-> resolved.cache,
     terminalHeads |-> IF resolved.err THEN <<>> ELSE SortByTrace(resolved.result)]

\* The terminalHeads of add.
TerminalHeads(st, op) == SortResolved(ResolveHeads(st, op, st.heads, <<>>))

\* Mutant of RegisterValues: a terminal head without a value empties the register.
RegisterValuesDeleteWins(terminalHeads) ==
    IF \E i \in 1..Len(terminalHeads) : terminalHeads[i][1].value = NoValue
    THEN <<>>
    ELSE [i \in 1..Len(terminalHeads) |-> terminalHeads[i][1].value]

\* Mutant of RegisterValues: a value is listed once, however many heads resolve to it.
RegisterValuesDeduplicated(terminalHeads) ==
    LET values == [i \in 1..Len(terminalHeads) |-> terminalHeads[i][1].value]
    IN  SelectSeq([i \in 1..Len(values) |->
                      IF \E j \in 1..(i - 1) : values[j] = values[i] THEN NoValue ELSE values[i]],
                  LAMBDA value : value # NoValue)

\* register.values: the values of the terminal heads that have one.
RegisterValues(terminalHeads) ==
    LET withValue == SelectSeq(terminalHeads, LAMBDA entry : entry[1].value # NoValue)
    IN  [i \in 1..Len(withValue) |-> withValue[i][1].value]

\* Mutant of AdvanceHeads: the applied operation becomes the only head.
AdvanceHeadsOnlyOp(heads, op) == <<OpIdToString(op.opId)>>

\* Mutant of AdvanceHeads: the predecessors stay heads.
AdvanceHeadsKeepPreds(heads, op) == SetAdd(heads, OpIdToString(op.opId))

\* The head set after _advanceHeads: the preds leave, the operation enters.
AdvanceHeads(heads, op) == SetAdd(SetDeleteAll(heads, op.preds), OpIdToString(op.opId))

\* _updateLastOp
UpdateLastOp(lastOp, op) ==
    IF lastOp = NoOp THEN op
    ELSE IF OpIdCompare(op.opId, lastOp.opId) > 0 THEN op ELSE lastOp

\* Mutant of AlreadyApplied: an applied operation is processed again.
AlreadyAppliedNever(st, op) == FALSE

\* Mutant of AlreadyApplied: only the very same operation is ignored.
AlreadyAppliedSameOp(st, op) ==
    /\ MapHas(st.appliedOps, OpIdToString(op.opId))
    /\ st.appliedOps[OpIdToString(op.opId)] = op

\* "ignore already applied ops"
AlreadyApplied(st, op) == MapHas(st.appliedOps, OpIdToString(op.opId))

\* Mutant of Defer: the clock is synced with an operation that goes to the lobby.
DeferSyncsClock(st, op) ==
    IF \E i \in 1..Len(st.lobby) : OpIdToString(st.lobby[i].opId) = OpIdToString(op.opId)
    THEN st
    ELSE [st EXCEPT !.lobby = Append(@, op), !.ctr = ClockSync(st, OpIdCtr(op.opId))]

\* "delay ops which are not yet causally ready and put them into the lobby"
Defer(st, op) ==
    IF \E i \in 1..Len(st.lobby) : OpIdToString(st.lobby[i].opId) = OpIdToString(op.opId)
    THEN st
    ELSE [st EXCEPT !.lobby = Append(@, op)]

\* Mutant of Admit: every applied set operation is pushed onto the undo stack and
\* clears the redo stack, whoever generated it.
AdmitPushesSets(advanced, op, resolved) ==
    IF resolved.err
    THEN [advanced EXCEPT !.cache = resolved.cache, !.err = TRUE]
    ELSE [advanced EXCEPT
            !.cache = resolved.cache,
            !.values = RegisterValues(resolved.terminalHeads),
            !.terminalHeads = resolved.terminalHeads,
            !.appliedOps = MapSet(@, OpIdToString(op.opId), op),
            !.ctr = ClockSync(advanced, OpIdCtr(op.opId)),
            !.undoStack = IF op.kind = OpKind.set /\ ~IsLocalOp(advanced, op)
                          THEN Append(@, op) ELSE @,
            !.redoStack = IF op.kind = OpKind.set /\ ~IsLocalOp(advanced, op)
                          THEN <<>> ELSE @]

\* The effect of add once the terminal heads are resolved: the register, appliedOps and
\* the clock. A throw of the resolution leaves heads and lastOp advanced.
Admit(advanced, op, resolved) ==
    IF resolved.err
    THEN [advanced EXCEPT !.cache = resolved.cache, !.err = TRUE]
    ELSE [advanced EXCEPT
            !.cache = resolved.cache,
            !.values = RegisterValues(resolved.terminalHeads),
            !.terminalHeads = resolved.terminalHeads,
            !.appliedOps = MapSet(@, OpIdToString(op.opId), op),
            !.ctr = ClockSync(advanced, OpIdCtr(op.opId))]

Resolve(advanced, op) == Admit(advanced, op, TerminalHeads(advanced, op))

\* Mutant of ProcessCausallyReady: the lobby is not scanned after an operation is applied.
ProcessCausallyReadyNever(st) == st

\* History.add, processCausallyReady and the forEach over the ready operations.
\* A throw leaves the state as it is at the throw and ends every enclosing loop.
RECURSIVE Add(_, _, _), ProcessCausallyReady(_), AddEach(_, _, _)
Add(st, op, skipCausallyReadyCheck) ==
    IF AlreadyApplied(st, op) THEN st
    ELSE IF ~skipCausallyReadyCheck /\ ~IsCausallyReady(st, op) THEN Defer(st, op)
    ELSE ProcessCausallyReady(
           Resolve([st EXCEPT !.heads = AdvanceHeads(@, op),
                              !.lastOp = UpdateLastOp(@, op)], op))

\* Mutant of ProcessCausallyReady: the operations that became ready stay in the lobby.
ProcessCausallyReadyKeepsLobby(st) ==
    IF st.err THEN st
    ELSE AddEach(st, SelectSeq(st.lobby, LAMBDA op : IsCausallyReady(st, op)), TRUE)

ProcessCausallyReady(st) ==
    IF st.err THEN st
    ELSE AddEach([st EXCEPT !.lobby = SelectSeq(@, LAMBDA op : ~IsCausallyReady(st, op))],
                 SelectSeq(st.lobby, LAMBDA op : IsCausallyReady(st, op)), TRUE)

AddEach(st, ops, skipCausallyReadyCheck) ==
    IF ops = <<>> \/ st.err THEN st
    ELSE AddEach(Add(st, Head(ops), skipCausallyReadyCheck), Tail(ops), skipCausallyReadyCheck)

\* Picomerge.apply(ops): history.add for each operation of the list.
ApplyOps(st, ops) == AddEach(st, ops, FALSE)

\* Mutant of Pushed: a new local terminal operation leaves the redo stack as it is.
PushedKeepsRedo(st, op) ==
    [op |-> op, st |-> [st EXCEPT !.undoStack = Append(@, op)]]

\* History.set(value); value = NoValue for a delete.
Pushed(st, op) ==
    [op |-> op, st |-> [st EXCEPT !.undoStack = Append(@, op), !.redoStack = <<>>]]

HistorySet(st, value) == Pushed(st, SetOp(ClockTick(st), CurrentPreds(st), value))

\* Mutant of HistoryUndo: undo anchors the last operation of any actor.
HistoryUndoLastOp(st) ==
    [op |-> RestoreOp(ClockTick(st), CurrentPreds(st), st.lastOp.opId),
     st |-> [st EXCEPT !.undoStack = SubSeq(@, 1, Len(@) - 1),
                       !.redoStack = Append(@, RestoreOp(ClockTick(st), CurrentPreds(st),
                                                         st.lastOp.opId))]]

\* Mutant of HistoryUndo: undo anchors the oldest operation on the undo stack.
HistoryUndoOldest(st) ==
    [op |-> RestoreOp(ClockTick(st), CurrentPreds(st), st.undoStack[1].opId),
     st |-> [st EXCEPT !.undoStack = SubSeq(@, 1, Len(@) - 1),
                       !.redoStack = Append(@, RestoreOp(ClockTick(st), CurrentPreds(st),
                                                         st.undoStack[1].opId))]]

\* Mutant of Undone: the undone operation stays on the undo stack.
UndoneKeepsStack(st, op) ==
    [op |-> op, st |-> [st EXCEPT !.redoStack = Append(@, op)]]

\* History.undo with a non-empty undo stack.
Undone(st, op) ==
    [op |-> op, st |-> [st EXCEPT !.undoStack = SubSeq(@, 1, Len(@) - 1),
                                  !.redoStack = Append(@, op)]]

\* Mutant of HistoryUndo: the undo operation names itself as its anchor.
HistoryUndoAnchorsItself(st) ==
    Undone(st, RestoreOp(ClockTick(st), CurrentPreds(st), ClockTick(st)))

HistoryUndo(st) ==
    Undone(st, RestoreOp(ClockTick(st), CurrentPreds(st), st.undoStack[Len(st.undoStack)].opId))

\* Mutant of Redone: the redo operation is pushed onto the redo stack.
RedoneStaysRedoable(popped, op, terminal) ==
    IF terminal.err THEN [op |-> NoOp, st |-> [popped EXCEPT !.err = TRUE]]
    ELSE [op |-> op, st |-> [popped EXCEPT !.undoStack = Append(@, terminal.op),
                                           !.redoStack = Append(@, op)]]

\* Mutant of Redone: redo pushes the restore operation itself onto the undo stack.
RedonePushesRestore(popped, op, terminal) ==
    IF terminal.err THEN [op |-> NoOp, st |-> [popped EXCEPT !.err = TRUE]]
    ELSE [op |-> op, st |-> [popped EXCEPT !.undoStack = Append(@, op)]]

\* History.redo with a non-empty redo stack; err when the anchor chain cannot be resolved
\* ("cannot resolve to terminal op").
Redone(popped, op, terminal) ==
    IF terminal.err THEN [op |-> NoOp, st |-> [popped EXCEPT !.err = TRUE]]
    ELSE [op |-> op, st |-> [popped EXCEPT !.undoStack = Append(@, terminal.op)]]

RedoOf(popped, op) == Redone(popped, op, ResolveToTerminalOp(popped, op))

\* Mutant of HistoryRedo: the redo operation anchors the terminal operation it resolves to.
HistoryRedoAnchorsTerminal(st) ==
    RedoOf([st EXCEPT !.redoStack = SubSeq(@, 1, Len(@) - 1)],
           RestoreOp(ClockTick(st), CurrentPreds(st),
                     ResolveToTerminalOp(st, st.redoStack[Len(st.redoStack)]).op.opId))

\* Mutant of HistoryRedo: the redone operation stays on the redo stack.
HistoryRedoKeepsStack(st) ==
    RedoOf(st, RestoreOp(ClockTick(st), CurrentPreds(st), st.redoStack[Len(st.redoStack)].opId))

HistoryRedo(st) ==
    RedoOf([st EXCEPT !.redoStack = SubSeq(@, 1, Len(@) - 1)],
           RestoreOp(ClockTick(st), CurrentPreds(st), st.redoStack[Len(st.redoStack)].opId))

(* ---------------------------- the replicas ----------------------------- *)

VARIABLES
    replica,     \* actor id -> the Picomerge instance of that actor
    network,     \* the operations returned by set/delete/undo/redo so far
    viewBefore,  \* stringified OpId -> get() of the author right before generating it
    given,       \* the arguments of a direct call of OpId.compare, toString or fromString
    returned     \* what that call returned

vars == <<replica, network, viewBefore, given, returned>>

\* No direct call of a function of OpId: the replicas call them on their own operations.
NoCall == [fn |-> "none"]

\* What apply can be handed: operations some replica returned, or undefined (NoOp here).
Deliverable == network \cup {NoOp}

\* The lists handed to apply: one entry, or two operations against the order of their
\* OpIds (a list in that order acts as two calls with one entry each).
Batches ==
    {<<op>> : op \in Deliverable}
        \cup {pair \in network \X network : OpIdCompare(pair[1].opId, pair[2].opId) > 0}

\* The entries of a list that are not undefined.
Defined(ops) == SelectSeq(ops, LAMBDA op : op # NoOp)

\* A public call starts with no error pending.
Entered(a) == [replica[a] EXCEPT !.err = FALSE]

\* The engine never inspects a value (V is opaque), so each set writes a value of its
\* own: the one that names the OpId the set is about to get.
FreshValue(a) == 2 * replica[a].ctr + (IF a = <<"A">> THEN 1 ELSE 2)

Generated(op, view) ==
    /\ network' = network \cup {op}
    /\ viewBefore' = MapSet(viewBefore, OpIdToString(op.opId), view)
    /\ UNCHANGED <<given, returned>>

Init ==
    /\ replica = [a \in Actors |-> NewReplica(a, FALSE)]
    /\ network = {}
    /\ viewBefore = [key \in {} |-> <<>>]
    /\ given = NoCall
    /\ returned = NoCall

\* apply([op]) of the operation a call generated; nothing when there is none.
AfterCall(made) == ApplyOps(made.st, Defined(<<made.op>>))

\* The early return of delete, undo and redo: no operation, the history untouched.
Nothing(st) == [op |-> NoOp, st |-> st]

PicomergeSet(st, value) == HistorySet(st, value)

\* Mutant of PicomergeDelete: a delete operation is generated on an empty register too.
PicomergeDeleteUnguarded(st) == HistorySet(st, NoValue)

PicomergeDelete(st) == IF Len(st.values) = 0 THEN Nothing(st) ELSE HistorySet(st, NoValue)

\* Mutant of PicomergeUndo: the clock ticks before the undo stack is looked at.
PicomergeUndoTicks(st) ==
    IF Len(st.undoStack) = 0 THEN Nothing([st EXCEPT !.ctr = @ + 1]) ELSE HistoryUndo(st)

PicomergeUndo(st) == IF Len(st.undoStack) = 0 THEN Nothing(st) ELSE HistoryUndo(st)

PicomergeRedo(st) == IF Len(st.redoStack) = 0 THEN Nothing(st) ELSE HistoryRedo(st)

\* The call returns nothing: no operation is generated or applied.
ReturnsNothing(a, st) ==
    /\ replica' = [replica EXCEPT ![a] = st]
    /\ UNCHANGED <<network, viewBefore, given, returned>>

\* The call applies the operation it generated and returns it.
Returns(a, made) ==
    IF made.op = NoOp
    THEN ReturnsNothing(a, made.st)
    ELSE /\ replica' = [replica EXCEPT ![a] = AfterCall(made)]
         /\ Generated(made.op, replica[a].values)

\* replica a: set(v)
Set(a, v) ==
    /\ Cardinality(network) < MaxOps
    /\ v = FreshValue(a)
    /\ Returns(a, PicomergeSet(Entered(a), v))

\* replica a: delete()
Delete(a) ==
    /\ Cardinality(network) < MaxOps
    /\ Returns(a, PicomergeDelete(Entered(a)))

\* replica a: undo()
Undo(a) ==
    /\ Cardinality(network) < MaxOps
    /\ Returns(a, PicomergeUndo(Entered(a)))

\* replica a: redo()
Redo(a) ==
    /\ Cardinality(network) < MaxOps
    /\ Returns(a, PicomergeRedo(Entered(a)))

\* replica a: apply(ops), ops in any order, with repetitions and undefined entries
Apply(a, ops) ==
    /\ replica' = [replica EXCEPT ![a] = ApplyOps(Entered(a), Defined(ops))]
    /\ UNCHANGED <<network, viewBefore, given, returned>>

Next ==
    \/ \E a \in Actors, v \in Values : Set(a, v)
    \/ \E a \in Actors : Delete(a)
    \/ \E a \in Actors : Undo(a)
    \/ \E a \in Actors : Redo(a)
    \/ \E a \in Actors, ops \in Batches : Apply(a, ops)

Spec == Init /\ [][Next]_vars

(* ------------------- replicas with and without the cache ---------------- *)

\* Picomerge.create(actorId, true) next to Picomerge.create(actorId, false): every actor
\* runs a second replica with the resolution cache, and each call is made on both.
Twin(a) == Append(a, "'")

Twins == {Twin(a) : a \in Actors}

\* Whether actor a may generate one more operation.
MayGenerate(a) ==
    /\ Cardinality(network) < MaxCacheOps
    /\ a = <<"B">> => Cardinality({op \in network : OpIdActor(op.opId) = a}) < MaxPeerOps

CacheInit ==
    /\ replica = [k \in Actors \cup Twins |-> NewReplica(<<k[1]>>, k \in Twins)]
    /\ network = {}
    /\ viewBefore = [key \in {} |-> <<>>]
    /\ given = NoCall
    /\ returned = NoCall

\* The same call on both replicas of actor a; the operation of the replica without the
\* cache is the one handed on.
BothReturn(a, made, twinMade) ==
    /\ replica' = [replica EXCEPT ![a] = AfterCall(made), ![Twin(a)] = AfterCall(twinMade)]
    /\ IF made.op = NoOp
       THEN UNCHANGED <<network, viewBefore, given, returned>>
       ELSE Generated(made.op, replica[a].values)

CachedSet(a, v) ==
    /\ MayGenerate(a)
    /\ v = FreshValue(a)
    /\ BothReturn(a, PicomergeSet(Entered(a), v), PicomergeSet(Entered(Twin(a)), v))

CachedDelete(a) ==
    /\ MayGenerate(a)
    /\ BothReturn(a, PicomergeDelete(Entered(a)), PicomergeDelete(Entered(Twin(a))))

CachedUndo(a) ==
    /\ MayGenerate(a)
    /\ BothReturn(a, PicomergeUndo(Entered(a)), PicomergeUndo(Entered(Twin(a))))

CachedRedo(a) ==
    /\ MayGenerate(a)
    /\ BothReturn(a, PicomergeRedo(Entered(a)), PicomergeRedo(Entered(Twin(a))))

\* The lists handed to apply here: an operation that is new to the replica and causally
\* ready, alone or behind an operation that waits for it in the lobby meanwhile.
Fresh(a, op) == ~MapHas(replica[a].appliedOps, OpIdToString(op.opId))

ReadyBatches(a) ==
    {<<op>> : op \in {o \in network : Fresh(a, o) /\ IsCausallyReady(replica[a], o)}}
        \cup {pair \in network \X network :
                 /\ Fresh(a, pair[1]) /\ Fresh(a, pair[2])
                 /\ IsCausallyReady(replica[a], pair[2])
                 /\ OpIdToString(pair[2].opId) \in Range(pair[1].preds)}

CachedApply(a, ops) ==
    /\ replica' = [replica EXCEPT ![a] = ApplyOps(Entered(a), Defined(ops)),
                                  ![Twin(a)] = ApplyOps(Entered(Twin(a)), Defined(ops))]
    /\ UNCHANGED <<network, viewBefore, given, returned>>

CacheNext ==
    \/ \E a \in Actors, v \in Values : CachedSet(a, v)
    \/ \E a \in Actors : CachedDelete(a)
    \/ \E a \in Actors : CachedUndo(a)
    \/ \E a \in Actors : CachedRedo(a)
    \/ \E a \in Actors : \E ops \in ReadyBatches(a) : CachedApply(a, ops)

CacheSpec == CacheInit /\ [][CacheNext]_vars

(* ------------------------- notions the claims use ----------------------- *)

AppliedSet(a) == {replica[a].appliedOps[key] : key \in DOMAIN replica[a].appliedOps}

LobbySet(a) == Range(replica[a].lobby)

HeadSet(a) == Range(replica[a].heads)

\* Every operation replica a was ever handed or generated is applied or waits in the lobby.
Known(a) == AppliedSet(a) \cup LobbySet(a)

Keys(ops) == {OpIdToString(op.opId) : op \in ops}

PredClosed(ops) == \A op \in ops : Range(op.preds) \subseteq Keys(ops)

\* A causal order of a set of generated operations: ascending OpIds.
RECURSIVE CausalOrder(_)
CausalOrder(ops) ==
    IF ops = {} THEN <<>>
    ELSE LET first == CHOOSE op \in ops :
                          \A other \in ops : OpIdCompare(op.opId, other.opId) <= 0
         IN  <<first>> \o CausalOrder(ops \ {first})

\* A fresh replica that was handed the operations one by one in causal order.
InOrder(ops) == ApplyOps(NewReplica(<<"C">>, FALSE), CausalOrder(ops))

TracesOf(terminalHeads) == [i \in 1..Len(terminalHeads) |-> terminalHeads[i][2].opIdTrace]

TerminalOpsOf(terminalHeads) == [i \in 1..Len(terminalHeads) |-> terminalHeads[i][1]]

IsForeign(a, op) == OpIdActor(op.opId) # a

(* --------------------------- scripted scenarios -------------------------- *)

\* The scenarios of the test suites: every actor makes the calls of its script, one
\* after the other, each call when the replica has applied exactly the operations the
\* scenario lets it see; what is delivered to whom, and when, is left open.
Key(ctr, actor) == OpIdToString(OpIdCreate(ctr, <<actor>>))

Call(call, value, sees) == [call |-> call, value |-> value, sees |-> sees]

\* The number of operations actor a has returned so far.
Made(a) == Cardinality({op \in network : OpIdActor(op.opId) = a})

ScriptInit(script) ==
    /\ replica = [a \in DOMAIN script |-> NewReplica(a, FALSE)]
    /\ network = {}
    /\ viewBefore = [key \in {} |-> <<>>]
    /\ given = NoCall
    /\ returned = NoCall

Called(st, entry) ==
    CASE entry.call = "set" -> PicomergeSet(st, entry.value)
      [] entry.call = "delete" -> PicomergeDelete(st)
      [] entry.call = "undo" -> PicomergeUndo(st)
      [] entry.call = "redo" -> PicomergeRedo(st)

\* Actor a makes the next call of its script.
ScriptedCall(script, a) ==
    /\ Made(a) < Len(script[a])
    /\ Keys(AppliedSet(a)) = script[a][Made(a) + 1].sees
    /\ Returns(a, Called(Entered(a), script[a][Made(a) + 1]))

\* "concurrent set and delete": left set(1); delete(), right set(2), the exchange, and
\* a later set(1) of either replica; a third replica makes no call and is handed the
\* operations of the two.
S3Script ==
    (<<"A">> :> <<Call("set", 1, {}), Call("delete", 0, {Key(1, "A")}),
                 Call("set", 1, {Key(1, "A"), Key(2, "A"), Key(1, "B")})>>)
    @@ (<<"B">> :> <<Call("set", 2, {}),
                    Call("set", 1, {Key(1, "A"), Key(2, "A"), Key(1, "B")})>>)
    @@ (<<"C">> :> <<>>)

S3Init == ScriptInit(S3Script)

S3Next ==
    \/ \E a \in DOMAIN S3Script : ScriptedCall(S3Script, a)
    \/ \E a \in DOMAIN S3Script : \E ops \in Batches : Apply(a, ops)

S3Spec == S3Init /\ [][S3Next]_vars

\* "different undos/redos resolve to the same terminal operation": A, B and C share
\* A's set(1); then A does undo(); redo(), B set(3); set(4), C set(2); undo(). The three
\* replicas are handed the operations in the orders of ReadyBatches.
S7Script ==
    (<<"A">> :> <<Call("set", 1, {}), Call("undo", 0, {Key(1, "A")}),
                 Call("redo", 0, {Key(1, "A"), Key(2, "A")})>>)
    @@ (<<"B">> :> <<Call("set", 3, {Key(1, "A")}),
                    Call("set", 4, {Key(1, "A"), Key(2, "B")})>>)
    @@ (<<"C">> :> <<Call("set", 2, {Key(1, "A")}),
                    Call("undo", 0, {Key(1, "A"), Key(2, "C")})>>)

S7Init == ScriptInit(S7Script)

S7Next ==
    \/ \E a \in DOMAIN S7Script : ScriptedCall(S7Script, a)
    \/ \E a \in DOMAIN S7Script : \E ops \in ReadyBatches(a) : Apply(a, ops)

S7Spec == S7Init /\ [][S7Next]_vars

\* "figure 3" up to step (2): A set(1), B set(2), concurrent A set(4) and B set(3),
\* B set(5), then undo() of A and of B without syncing; a third replica makes no call
\* and is handed the operations of the two. Operations arrive in the orders of
\* ReadyBatches.
S6Prefix == {Key(1, "A"), Key(2, "B"), Key(3, "A"), Key(3, "B"), Key(4, "B")}

S6Script ==
    (<<"A">> :> <<Call("set", 1, {}), Call("set", 4, {Key(1, "A"), Key(2, "B")}),
                 Call("undo", 0, S6Prefix)>>)
    @@ (<<"B">> :> <<Call("set", 2, {Key(1, "A")}), Call("set", 3, {Key(1, "A"), Key(2, "B")}),
                    Call("set", 5, {Key(1, "A"), Key(2, "B"), Key(3, "A"), Key(3, "B")}),
                    Call("undo", 0, S6Prefix)>>)
    @@ (<<"C">> :> <<>>)

S6Init == ScriptInit(S6Script)

S6Next ==
    \/ \E a \in DOMAIN S6Script : ScriptedCall(S6Script, a)
    \/ \E a \in DOMAIN S6Script : \E ops \in ReadyBatches(a) : Apply(a, ops)

S6Spec == S6Init /\ [][S6Next]_vars

\* "figure 1 (lower scenario)": the colours are opaque values.
Black == 1
Red == 2
Green == 3

\* A set(black); set(red), B set(green) on top of them, A undo(); redo(); a third replica
\* makes no call and is handed the operations of the two.
S5Script ==
    (<<"A">> :> <<Call("set", Black, {}), Call("set", Red, {Key(1, "A")}),
                 Call("undo", 0, {Key(1, "A"), Key(2, "A"), Key(3, "B")}),
                 Call("redo", 0, {Key(1, "A"), Key(2, "A"), Key(3, "B"), Key(4, "A")})>>)
    @@ (<<"B">> :> <<Call("set", Green, {Key(1, "A"), Key(2, "A")})>>)
    @@ (<<"C">> :> <<>>)

S5Init == ScriptInit(S5Script)

S5Next ==
    \/ \E a \in DOMAIN S5Script : ScriptedCall(S5Script, a)
    \/ \E a \in DOMAIN S5Script : \E ops \in Batches : Apply(a, ops)

S5Spec == S5Init /\ [][S5Next]_vars

\* The linear history of one actor: set(1); set(2); set(3); undo(); undo(); redo(); a
\* second replica makes no call and is handed the operations.
S1Script ==
    (<<"A">> :> <<Call("set", 1, {}), Call("set", 2, {Key(1, "A")}),
                 Call("set", 3, {Key(1, "A"), Key(2, "A")}),
                 Call("undo", 0, {Key(1, "A"), Key(2, "A"), Key(3, "A")}),
                 Call("undo", 0, {Key(1, "A"), Key(2, "A"), Key(3, "A"), Key(4, "A")}),
                 Call("redo", 0, {Key(1, "A"), Key(2, "A"), Key(3, "A"), Key(4, "A"),
                                  Key(5, "A")})>>)
    @@ (<<"B">> :> <<>>)

S1Init == ScriptInit(S1Script)

S1Next ==
    \/ \E a \in DOMAIN S1Script : ScriptedCall(S1Script, a)
    \/ \E a \in DOMAIN S1Script : \E ops \in Batches : Apply(a, ops)

S1Spec == S1Init /\ [][S1Next]_vars

\* "figure 7: anti-counter argument": A set(black); set(red), B set(green) on top of
\* them, A undo() seeing green, B undo() seeing A's undo; a third replica makes no call
\* and is handed the operations of the two.
Fig7Script ==
    (<<"A">> :> <<Call("set", Black, {}), Call("set", Red, {Key(1, "A")}),
                 Call("undo", 0, {Key(1, "A"), Key(2, "A"), Key(3, "B")})>>)
    @@ (<<"B">> :> <<Call("set", Green, {Key(1, "A"), Key(2, "A")}),
                    Call("undo", 0, {Key(1, "A"), Key(2, "A"), Key(3, "B"), Key(4, "A")})>>)
    @@ (<<"C">> :> <<>>)

Fig7Init == ScriptInit(Fig7Script)

Fig7Next ==
    \/ \E a \in DOMAIN Fig7Script : ScriptedCall(Fig7Script, a)
    \/ \E a \in DOMAIN Fig7Script : \E ops \in Batches : Apply(a, ops)

Fig7Spec == Fig7Init /\ [][Fig7Next]_vars

(* ------------------------- corrupt input streams ------------------------ *)

\* Replicas that are also handed restore operations no replica returned: causally
\* ready, with an anchor the replica has not applied.
MaxFaultOps == 2

\* The actor id the fabricated operations carry.
Forger == <<"C">>

\* OpIds that name no applied operation of replica a.
Missing(a) ==
    {op.opId : op \in network \ AppliedSet(a)} \cup {OpIdCreate(replica[a].ctr + 1, a)}

Corrupt(a) ==
    {r \in {RestoreOp(OpIdCreate(replica[a].ctr + 1, Forger), preds, anchor) :
                preds \in {<<>>, replica[a].heads}, anchor \in Missing(a)} :
        \A i \in 1..Len(r.preds) : MapHas(replica[a].appliedOps, r.preds[i])}

\* replica a: set, delete, undo or redo that returns an operation not returned before
\* (a replica whose heads name a rejected operation defers its own operations and
\* returns the same OpId again and again)
FaultCall(a) ==
    /\ Cardinality(network) < MaxFaultOps
    /\ \E made \in {PicomergeSet(Entered(a), FreshValue(a)), PicomergeDelete(Entered(a)),
                    PicomergeUndo(Entered(a)), PicomergeRedo(Entered(a))} :
           made.op # NoOp /\ made.op \notin network /\ Returns(a, made)

\* replica a: apply([r]) of a fabricated restore operation, once per replica
ApplyCorrupt(a, r) ==
    /\ \A head \in HeadSet(a) : MapHas(replica[a].appliedOps, head)
    /\ Apply(a, <<r>>)

FaultNext ==
    \/ \E a \in Actors : FaultCall(a)
    \/ \E a \in Actors, ops \in Batches : Apply(a, ops)
    \/ \E a \in Actors : \E r \in Corrupt(a) : ApplyCorrupt(a, r)

FaultSpec == Init /\ [][FaultNext]_vars

(* ----------------------------- a single actor --------------------------- *)

\* One replica, created with useCache = false, that calls set, undo and redo in any
\* order and is handed no operation of another actor.
MaxSoloOps == 9

Solo == <<"A">>

SoloInit ==
    /\ replica = [a \in {Solo} |-> NewReplica(a, FALSE)]
    /\ network = {}
    /\ viewBefore = [key \in {} |-> <<>>]
    /\ given = NoCall
    /\ returned = NoCall

SoloSet ==
    /\ Cardinality(network) < MaxSoloOps
    /\ Returns(Solo, PicomergeSet(Entered(Solo), FreshValue(Solo)))

SoloUndo ==
    /\ Cardinality(network) < MaxSoloOps
    /\ Returns(Solo, PicomergeUndo(Entered(Solo)))

SoloRedo ==
    /\ Cardinality(network) < MaxSoloOps
    /\ Returns(Solo, PicomergeRedo(Entered(Solo)))

SoloNext == SoloSet \/ SoloUndo \/ SoloRedo

SoloSpec == SoloInit /\ [][SoloNext]_vars

(* ----------------------------- calls of OpId ---------------------------- *)

\* The functions of OpId called directly, on OpIds and strings of these sizes.
MaxCtr == 10

MaxActorLen == 2

MaxStrLen == 3

ActorChars == {"@", "A"}

StrChars == {"1", "@", "A"}

\* The strings of at most len characters.
RECURSIVE StringsOver(_, _)
StringsOver(chars, len) ==
    IF len = 0 THEN {<<>>}
    ELSE StringsOver(chars, len - 1)
             \cup {Append(str, c) : str \in {t \in StringsOver(chars, len - 1) : Len(t) = len - 1},
                                    c \in chars}

ActorIds == StringsOver(ActorChars, MaxActorLen) \ {<<>>}

OpIds == {OpIdCreate(ctr, actorId) : ctr \in 0..MaxCtr, actorId \in ActorIds}

Strings == StringsOver(StrChars, MaxStrLen)

OpIdInit ==
    /\ replica = [a \in {} |-> NewReplica(a, FALSE)]
    /\ network = {}
    /\ viewBefore = [key \in {} |-> <<>>]
    /\ \/ given \in {[fn |-> fn, a |-> a, b |-> b] :
                        fn \in {"compare", "toString"}, a \in OpIds, b \in OpIds}
       \/ given \in {[fn |-> "fromString", str |-> str] : str \in Strings}
    /\ returned = NoCall

\* OpId.compare(a, b)
CallCompare ==
    /\ given.fn = "compare"
    /\ returned.fn = "none"
    /\ returned' = [fn |-> "compare", result |-> OpIdCompare(given.a, given.b)]
    /\ UNCHANGED <<replica, network, viewBefore, given>>

\* OpId.toString(a) and OpId.toString(b)
CallToString ==
    /\ given.fn = "toString"
    /\ returned.fn = "none"
    /\ returned' = [fn |-> "toString", a |-> OpIdToString(given.a), b |-> OpIdToString(given.b)]
    /\ UNCHANGED <<replica, network, viewBefore, given>>

\* OpId.fromString(str): split, parseInt and the array literal complete normally on
\* every string, the function has no throw statement.
CallFromString(str) ==
    /\ returned' = [fn |-> "fromString", str |-> str, completion |-> "normal",
                    opId |-> OpIdFromString(str)]
    /\ UNCHANGED <<replica, network, viewBefore, given>>

OpIdNext ==
    \/ CallCompare
    \/ CallToString
    \/ given.fn = "fromString" /\ returned.fn = "none" /\ CallFromString(given.str)
    \/ returned.fn = "toString" /\ CallFromString(returned.a)

OpIdSpec == OpIdInit /\ [][OpIdNext]_vars

(* -------------------------------- claims ------------------------------- *)

\* C1 (convergence): two replicas whose applied operation sets are equal return equal
\* get() lists and the same terminal operations with the same opIdTraces, in the same
\* order, whatever the order, batching and repetition of the deliveries were.
C1_Convergence ==
    \A a \in Actors, b \in Actors :
        AppliedSet(a) = AppliedSet(b) =>
            /\ replica[a].values = replica[b].values
            /\ TerminalOpsOf(replica[a].terminalHeads) = TerminalOpsOf(replica[b].terminalHeads)
            /\ TracesOf(replica[a].terminalHeads) = TracesOf(replica[b].terminalHeads)

\* Two replicas hold the same operations, of both authors, and reached their two
\* concurrent heads in different orders.
C1_Witness ==
    \E a \in Actors, b \in Actors :
        /\ a # b
        /\ AppliedSet(a) = AppliedSet(b)
        /\ Len(replica[a].heads) >= 2
        /\ replica[a].heads # replica[b].heads
        /\ Len(replica[a].values) >= 2

\* C2 (causal deferral): whenever the operations a replica was handed, in whatever
\* order, form a predecessor-closed set, its lobby is empty, all of them are applied and
\* its heads, get() and terminal heads are those of a delivery in causal order; while
\* the set is not closed the waiting operations show no effect (o2, o3 give [] and []).
SameAsInOrder(st, inOrder) ==
    /\ st.lobby = <<>>
    /\ Range(st.heads) = Range(inOrder.heads)
    /\ st.values = inOrder.values
    /\ st.terminalHeads = inOrder.terminalHeads
    /\ st.appliedOps = inOrder.appliedOps

C2_CausalDeferral ==
    \A a \in Actors :
        /\ PredClosed(Known(a)) => SameAsInOrder(replica[a], InOrder(Known(a)))
        /\ replica[a].appliedOps = EmptyMap => replica[a].values = <<>>

\* A replica holds two operations in its lobby, one the predecessor of the other, and
\* every operation it misses has been sent: one apply away from the release.
C2_Witness ==
    \E a \in Actors :
        /\ Len(replica[a].lobby) >= 2
        /\ \E o2 \in LobbySet(a), o3 \in LobbySet(a) :
               OpIdToString(o2.opId) \in Range(o3.preds)
        /\ replica[a].values = <<>>
        /\ PredClosed(network)
        /\ Cardinality(network \ Known(a)) = 1

\* C3 (idempotence): apply of an operation whose OpId is already applied changes nothing
\* of the replica: register, terminal heads, heads, applied set, lobby, clock and stacks.
C3_Idempotence ==
    \A a \in Actors, op \in network :
        OpIdToString(op.opId) \in Keys(AppliedSet(a))
            => ApplyOps(Entered(a), <<op>>) = replica[a]

\* A replica has applied a foreign operation that is no longer a head: handing it the
\* operation again is the case of the claim.
C3_Witness ==
    \E a \in Actors, op \in network :
        /\ OpIdToString(op.opId) \in Keys(AppliedSet(a))
        /\ IsForeign(a, op)
        /\ OpIdToString(op.opId) \notin HeadSet(a)
        /\ replica[a].undoStack # <<>>

\* C4 (causal readiness): every predecessor of every applied operation is applied.
C4_CausalReadiness ==
    \A a \in Actors : \A op \in AppliedSet(a) :
        Range(op.preds) \subseteq DOMAIN replica[a].appliedOps

\* A replica has applied a foreign operation with a predecessor while another operation
\* still waits in its lobby.
C4_Witness ==
    \E a \in Actors :
        /\ \E op \in AppliedSet(a) : IsForeign(a, op) /\ op.preds # <<>>
        /\ replica[a].lobby # <<>>

\* C5 (anchor availability): no call throws, and the anchor of every applied restore
\* operation is applied.
C5_AnchorAvailable ==
    \A a \in Actors :
        /\ ~replica[a].err
        /\ \A op \in AppliedSet(a) :
               op.kind = OpKind.restore => MapHas(replica[a].appliedOps, OpIdToString(op.anchor))

\* A replica has applied a foreign restore operation anchored at a restore (a redo).
C5_Witness ==
    \E a \in Actors : \E op \in AppliedSet(a) :
        /\ IsForeign(a, op)
        /\ op.kind = OpKind.restore
        /\ MapHas(replica[a].appliedOps, OpIdToString(op.anchor))
        /\ replica[a].appliedOps[OpIdToString(op.anchor)].kind = OpKind.restore

\* The operation with a given OpId among the generated ones.
Sent(opId) == CHOOSE op \in network : op.opId = opId

IsSent(opId) == \E op \in network : op.opId = opId

\* The state of replica a is the one its own restore operation r left: r is the only head.
JustRestored(a, r) ==
    /\ r \in AppliedSet(a)
    /\ r.kind = OpKind.restore
    /\ ~IsForeign(a, r)
    /\ replica[a].heads = <<OpIdToString(r.opId)>>

\* C6 (undo semantics): right after undo() at replica X returned a restore anchored at
\* X's set or delete S, X.get() is the list X.get() returned right before X generated S.
C6_UndoRestoresViewBeforeAnchor ==
    \A a \in Actors : \A r \in network :
        (JustRestored(a, r) /\ Sent(r.anchor).kind = OpKind.set)
            => replica[a].values = viewBefore[OpIdToString(r.anchor)]

\* X undid its set S after it had applied a foreign operation younger than S, and the
\* view before S was not empty.
C6_Witness ==
    \E a \in Actors : \E r \in network :
        /\ JustRestored(a, r)
        /\ Sent(r.anchor).kind = OpKind.set
        /\ viewBefore[OpIdToString(r.anchor)] # <<>>
        /\ \E f \in AppliedSet(a) :
               IsForeign(a, f) /\ OpIdCompare(f.opId, r.anchor) > 0

\* C7 (redo semantics): right after redo() at replica X returned a restore anchored at
\* X's undo restore R, X.get() is the list X.get() returned right before X generated R.
C7_RedoRestoresViewBeforeUndo ==
    \A a \in Actors : \A r \in network :
        (JustRestored(a, r) /\ Sent(r.anchor).kind = OpKind.restore)
            => replica[a].values = viewBefore[OpIdToString(r.anchor)]

\* X redid after it had applied a foreign set younger than its undo; the value of that
\* set is not in the register.
C7_Witness ==
    \E a \in Actors : \E r \in network :
        /\ JustRestored(a, r)
        /\ Sent(r.anchor).kind = OpKind.restore
        /\ \E f \in AppliedSet(a) :
               /\ IsForeign(a, f)
               /\ IsSetOp(f)
               /\ OpIdCompare(f.opId, r.anchor) > 0
               /\ f.value \notin Range(replica[a].values)
        /\ replica[a].values # <<>>

\* The register and the history a set(v) or delete() of replica a would leave now.
SupersedesAll(a, made) ==
    /\ AfterCall(made).values = (IF made.op.value = NoValue THEN <<>> ELSE <<made.op.value>>)
    /\ AfterCall(made).heads = <<OpIdToString(made.op.opId)>>
    /\ made.op.preds = replica[a].heads
    /\ MapHas(AfterCall(made).appliedOps, OpIdToString(made.op.opId))
    /\ AfterCall(made).lobby = replica[a].lobby

\* C8 (a local terminal operation supersedes all siblings): in every reachable state
\* set(v) leaves get() = [v] and the new operation as the only head; a delete() that
\* returns an operation leaves get() = [] and the new operation as the only head; the
\* preds of the new operation are the heads before the call and it is applied at once.
C8_LocalTerminalSupersedes ==
    \A a \in Actors :
        /\ SupersedesAll(a, HistorySet(Entered(a), FreshValue(a)))
        /\ replica[a].values # <<>> => SupersedesAll(a, HistorySet(Entered(a), NoValue))

\* A replica whose own set of a value had two sibling heads as predecessors: that set
\* is its only head and its value the only value.
C8_Witness ==
    \E a \in Actors : \E s \in AppliedSet(a) :
        /\ ~IsForeign(a, s)
        /\ IsSetOp(s)
        /\ Len(s.preds) >= 2
        /\ replica[a].heads = <<OpIdToString(s.opId)>>
        /\ replica[a].values = <<s.value>>

\* C9 (stack locality): the undo stack holds set operations of the replica's own actor,
\* the redo stack restore operations of its own actor whose anchor is a set operation.
C9_StackLocality ==
    \A a \in Actors :
        /\ \A i \in 1..Len(replica[a].undoStack) :
               /\ OpIdActor(replica[a].undoStack[i].opId) = a
               /\ replica[a].undoStack[i].kind = OpKind.set
        /\ \A i \in 1..Len(replica[a].redoStack) :
               /\ OpIdActor(replica[a].redoStack[i].opId) = a
               /\ replica[a].redoStack[i].kind = OpKind.restore
               /\ IsSent(replica[a].redoStack[i].anchor)
               /\ Sent(replica[a].redoStack[i].anchor).kind = OpKind.set

\* Both stacks of a replica hold an operation while the last operation it applied is
\* a foreign one.
C9_Witness ==
    \E a \in Actors :
        /\ replica[a].undoStack # <<>>
        /\ replica[a].redoStack # <<>>
        /\ replica[a].lastOp # NoOp
        /\ IsForeign(a, replica[a].lastOp)

\* The set operation a chain of anchors ends at (anchors have smaller OpIds).
RECURSIVE AnchorTarget(_)
AnchorTarget(op) == IF op.kind = OpKind.set THEN op ELSE AnchorTarget(Sent(op.anchor))

\* C10 (no cross-actor undo): the anchor of every restore operation a replica returned
\* is an operation of the same actor, and its chain of anchors ends at a set operation
\* of that actor.
C10_NoCrossActorUndo ==
    \A r \in network :
        r.kind = OpKind.restore =>
            /\ IsSent(r.anchor)
            /\ OpIdActor(r.anchor) = OpIdActor(r.opId)
            /\ OpIdActor(AnchorTarget(r).opId) = OpIdActor(r.opId)

\* An undo was called while the only head was a foreign operation younger than the
\* actor's last own set: the restore is anchored at the own set all the same.
C10_Witness ==
    \E r \in network : \E f \in network :
        /\ r.kind = OpKind.restore
        /\ OpIdActor(f.opId) # OpIdActor(r.opId)
        /\ r.preds = <<OpIdToString(f.opId)>>
        /\ OpIdCompare(f.opId, r.anchor) > 0
        /\ OpIdActor(r.anchor) = OpIdActor(r.opId)

\* The stacks of replica a are those of st.
SameStacks(a, st) ==
    /\ st.undoStack = replica[a].undoStack
    /\ st.redoStack = replica[a].redoStack

\* C11 (received operations never touch the local stacks): apply of an operation that a
\* replica returned from an earlier call (or of undefined) leaves undoStack() and
\* redoStack() of the receiving replica as they are, hence so does apply of a list of
\* them; a replica that applied only foreign operations has both stacks empty, so that
\* its undo() and redo() return nothing.
C11_ApplyLeavesStacks ==
    \A a \in Actors :
        /\ \A op \in Deliverable : SameStacks(a, ApplyOps(Entered(a), Defined(<<op>>)))
        /\ (\A op \in AppliedSet(a) : IsForeign(a, op))
               => replica[a].undoStack = <<>> /\ replica[a].redoStack = <<>>

\* A replica applied a foreign set after its own undo: the set is a head that the
\* undo on the redo stack does not precede, and both stacks still hold an operation.
C11_Witness ==
    \E a \in Actors : \E f \in AppliedSet(a) :
        /\ replica[a].undoStack # <<>>
        /\ replica[a].redoStack # <<>>
        /\ IsForeign(a, f)
        /\ IsSetOp(f)
        /\ OpIdToString(f.opId) \in HeadSet(a)
        /\ OpIdToString(replica[a].redoStack[Len(replica[a].redoStack)].opId) \in HeadSet(a)

\* The state of replica a is the one its own set or delete s left: s is the only head.
JustSet(a, s) ==
    /\ s \in AppliedSet(a)
    /\ s.kind = OpKind.set
    /\ ~IsForeign(a, s)
    /\ replica[a].heads = <<OpIdToString(s.opId)>>

\* C12 (redo clearing): right after a set(v), and after a delete() that returned an
\* operation, redoStack() is empty (so a following redo() returns nothing), also when
\* the replica had undone operations before.
C12_RedoCleared ==
    \A a \in Actors : \A s \in network :
        JustSet(a, s) => replica[a].redoStack = <<>>

\* A replica called set or delete after an undo of its own: the undo is a predecessor
\* of the new operation.
C12_Witness ==
    \E a \in Actors : \E s \in network : \E r \in AppliedSet(a) :
        /\ JustSet(a, s)
        /\ r.kind = OpKind.restore
        /\ ~IsForeign(a, r)
        /\ OpIdToString(r.opId) \in Range(s.preds)

\* The call returned nothing and left the whole state of replica a as it was.
NoEffect(a, made) ==
    /\ made.op = NoOp
    /\ ~made.st.err
    /\ AfterCall(made) = Entered(a)

\* C13 (delete guard): when get() is empty, delete() returns nothing, generates no
\* operation and leaves the whole replica state unchanged: applied set, heads, lobby,
\* clock, undoStack() and redoStack() (the redo stack is not cleared).
C13_DeleteGuard ==
    \A a \in Actors :
        replica[a].values = <<>> => NoEffect(a, PicomergeDelete(Entered(a)))

\* A replica with an empty register that has applied operations, an undo on its redo
\* stack and an operation waiting in its lobby.
C13_Witness ==
    \E a \in Actors :
        /\ replica[a].values = <<>>
        /\ replica[a].redoStack # <<>>
        /\ replica[a].lobby # <<>>
        /\ replica[a].heads # <<>>

\* C14 (empty undo/redo): undo() with an empty undo stack and redo() with an empty redo
\* stack return nothing, raise no error, generate no operation and leave the register,
\* the applied set, the heads, the lobby, the clock and both stacks unchanged.
C14_EmptyUndoRedo ==
    \A a \in Actors :
        /\ replica[a].undoStack = <<>> => NoEffect(a, PicomergeUndo(Entered(a)))
        /\ replica[a].redoStack = <<>> => NoEffect(a, PicomergeRedo(Entered(a)))

\* A replica with both stacks empty that shows a value and holds an operation in its
\* lobby.
C14_Witness ==
    \E a \in Actors :
        /\ replica[a].undoStack = <<>>
        /\ replica[a].redoStack = <<>>
        /\ replica[a].values # <<>>
        /\ replica[a].lobby # <<>>
        /\ replica[a].ctr > 0

\* Replica a lacks a predecessor of op.
LacksPred(a, op) == \E i \in 1..Len(op.preds) : ~MapHas(replica[a].appliedOps, op.preds[i])

\* st is replica a with op added to the lobby unless an operation with its OpId waits there.
OnlyDeferred(a, op, st) ==
    st = [Entered(a) EXCEPT
             !.lobby = IF OpIdToString(op.opId) \in Keys(LobbySet(a)) THEN @ ELSE Append(@, op)]

\* C15 (deferral has no visible effect): apply of an operation with a predecessor that
\* is not applied only adds it to the lobby, unless an operation with that OpId waits
\* there; get(), terminalHeads(), the heads, the applied set, the clock and both stacks
\* stay as they are and no error is raised.
C15_DeferralFrame ==
    \A a \in Actors : \A op \in network :
        LacksPred(a, op) => OnlyDeferred(a, op, ApplyOps(Entered(a), <<op>>))

\* A replica that shows a value and has an operation of its own to undo holds in its
\* lobby an operation with a counter beyond its clock.
C15_Witness ==
    \E a \in Actors : \E op \in LobbySet(a) :
        /\ LacksPred(a, op)
        /\ OpIdCtr(op.opId) > replica[a].ctr
        /\ replica[a].values # <<>>
        /\ replica[a].undoStack # <<>>

\* The applied operations of replica a that no applied operation names as predecessor.
Unsucceeded(a) ==
    {key \in Keys(AppliedSet(a)) : \A op \in AppliedSet(a) : key \notin Range(op.preds)}

\* C16 (head-set invariant): after every public call that returned normally the heads
\* are applied operations, they are exactly the applied operations that are not a
\* predecessor of an applied operation, and there is a head when anything is applied.
C16_HeadSet ==
    \A a \in Actors :
        ~replica[a].err =>
            /\ HeadSet(a) \subseteq Keys(AppliedSet(a))
            /\ HeadSet(a) = Unsucceeded(a)
            /\ Len(replica[a].heads) = Cardinality(HeadSet(a))
            /\ (AppliedSet(a) # {} => HeadSet(a) # {})

\* A replica with two concurrent heads, one of them foreign, that succeeded an older
\* applied operation.
C16_Witness ==
    \E a \in Actors :
        /\ Cardinality(HeadSet(a)) >= 2
        /\ Cardinality(AppliedSet(a)) >= 3
        /\ \E op \in AppliedSet(a) : IsForeign(a, op) /\ OpIdToString(op.opId) \in HeadSet(a)
        /\ ~replica[a].err

\* r is a restore operation that redo() returned: its anchor is a restore operation.
IsRedo(r) == r.kind = OpKind.restore /\ Sent(r.anchor).kind = OpKind.restore

\* C17 (restore chain bound): for every restore that redo() produced, the
\* restore-to-terminal resolver of its author reaches a set after exactly two anchors
\* (redo -> undo restore -> set): the anchor of a redo is a restore whose own anchor is
\* a set, and no restore is anchored at a redo.
C17_RestoreChainBound ==
    \A r \in network :
        IsRedo(r) =>
            /\ Sent(Sent(r.anchor).anchor).kind = OpKind.set
            /\ ResolveToTerminalOp(replica[OpIdActor(r.opId)], r)
                   = [err |-> FALSE, op |-> Sent(Sent(r.anchor).anchor)]

\* An actor called undo again after a redo: the new undo is anchored at the set the
\* redo had pushed back, not at the redo.
C17_Witness ==
    \E r \in network : \E u \in network :
        /\ IsRedo(r)
        /\ u.kind = OpKind.restore
        /\ OpIdActor(u.opId) = OpIdActor(r.opId)
        /\ OpIdCompare(u.opId, r.opId) > 0
        /\ u.anchor = Sent(r.anchor).anchor

\* The values of the operations with the given OpIds, greatest OpId first.
RECURSIVE ValuesDescending(_, _)
ValuesDescending(a, keys) ==
    IF keys = {} THEN <<>>
    ELSE LET top == CHOOSE key \in keys : \A other \in keys :
                        OpIdCompare(OpIdFromString(key), OpIdFromString(other)) >= 0
         IN  (IF replica[a].appliedOps[top].value = NoValue THEN <<>>
              ELSE <<replica[a].appliedOps[top].value>>)
                 \o ValuesDescending(a, keys \ {top})

\* left set(1); set(3) and right set(2), the operations of the two replicas.
ConcurrentSets ==
    {SetOp(<<1, <<"A">>>>, <<>>, 1), SetOp(<<2, <<"A">>>>, <<OpIdToString(<<1, <<"A">>>>)>>, 3),
     SetOp(<<1, <<"B">>>>, <<>>, 2)}

\* C20 (sibling order): whenever every head is a set operation, get() lists the values
\* of the heads that have one in strictly descending OpId order (counter first, then
\* actor id); after left set(1); set(3), right set(2) and the exchange, get() = [3, 2].
C20_SiblingOrder ==
    \A a \in Actors :
        /\ (\A key \in HeadSet(a) : replica[a].appliedOps[key].kind = OpKind.set)
               => replica[a].values = ValuesDescending(a, HeadSet(a))
        /\ AppliedSet(a) = ConcurrentSets => replica[a].values = <<3, 2>>

\* Both replicas hold the three operations of the example.
C20_Witness ==
    \A a \in Actors : AppliedSet(a) = ConcurrentSets /\ Len(replica[a].heads) = 2

\* C18 as stated (trace shape): in every reachable state of every replica, with or
\* without the cache, every entry (t, meta) of terminalHeads() has t of kind set,
\* meta.opIdTrace[0] among the heads and the last element of meta.opIdTrace equal to the
\* OpId of t.
TraceStartsAtHead(st, entry) ==
    /\ entry[1].kind = OpKind.set
    /\ entry[2].opIdTrace # <<>>
    /\ entry[2].opIdTrace[1] \in Range(st.heads)

TraceEndsAtTerminal(entry) ==
    entry[2].opIdTrace[Len(entry[2].opIdTrace)] = OpIdToString(entry[1].opId)

C18_TraceShapeAsStated ==
    \A k \in DOMAIN replica : \A i \in 1..Len(replica[k].terminalHeads) :
        /\ TraceStartsAtHead(replica[k], replica[k].terminalHeads[i])
        /\ TraceEndsAtTerminal(replica[k].terminalHeads[i])

\* The trace of an entry spliced from the cache ends at the cached restore operation.
TraceEndsAtCached(st, entry) ==
    /\ Len(entry[2].opIdTrace) >= 2
    /\ MapHas(st.appliedOps, entry[2].opIdTrace[Len(entry[2].opIdTrace)])
    /\ st.appliedOps[entry[2].opIdTrace[Len(entry[2].opIdTrace)]].kind = OpKind.restore
    /\ MapHas(st.cache, entry[2].opIdTrace[Len(entry[2].opIdTrace)])
    /\ entry[1] \in Range(st.cache[entry[2].opIdTrace[Len(entry[2].opIdTrace)]])

\* C18 as amended (trace shape): every entry (t, meta) of terminalHeads() has t of kind
\* set and meta.opIdTrace[0] among the heads; without the cache the last element of
\* meta.opIdTrace is the OpId of t, with the cache it is the OpId of t or the OpId of a
\* cached restore operation whose cached list holds t.
C18_TraceShape ==
    \A k \in DOMAIN replica : \A i \in 1..Len(replica[k].terminalHeads) :
        /\ TraceStartsAtHead(replica[k], replica[k].terminalHeads[i])
        /\ \/ TraceEndsAtTerminal(replica[k].terminalHeads[i])
           \/ /\ replica[k].useCache
              /\ TraceEndsAtCached(replica[k], replica[k].terminalHeads[i])

\* The replica with the cache shows a value through an entry spliced from the cache,
\* the replica without it shows the same value through a trace that ends at its set.
C18_Witness ==
    \E a \in Actors :
        /\ \E i \in 1..Len(replica[Twin(a)].terminalHeads) :
               /\ ~TraceEndsAtTerminal(replica[Twin(a)].terminalHeads[i])
               /\ replica[Twin(a)].terminalHeads[i][1].value # NoValue
        /\ replica[a].terminalHeads # <<>>
        /\ \A i \in 1..Len(replica[a].terminalHeads) :
               TraceEndsAtTerminal(replica[a].terminalHeads[i])

\* The same call returns the same operation on both replicas of actor a.
SameOp(made, twinMade) == made.op = twinMade.op

\* C19 (cache transparency): two replicas with the same actor id, one without and one
\* with the cache, driven by the same calls, return the same get() list and the same
\* sequence of terminal operations after every call, and emit identical operations.
C19_CacheTransparency ==
    \A a \in Actors :
        /\ replica[a].values = replica[Twin(a)].values
        /\ TerminalOpsOf(replica[a].terminalHeads) = TerminalOpsOf(replica[Twin(a)].terminalHeads)
        /\ SameOp(PicomergeSet(Entered(a), FreshValue(a)),
                  PicomergeSet(Entered(Twin(a)), FreshValue(a)))
        /\ SameOp(PicomergeDelete(Entered(a)), PicomergeDelete(Entered(Twin(a))))
        /\ SameOp(PicomergeUndo(Entered(a)), PicomergeUndo(Entered(Twin(a))))
        /\ SameOp(PicomergeRedo(Entered(a)), PicomergeRedo(Entered(Twin(a))))

\* The two replicas of an actor return the same non-empty list, the one through full
\* traces and the other through traces cut at a cached restore.
C19_Witness ==
    \E a \in Actors :
        /\ replica[a].values # <<>>
        /\ replica[a].values = replica[Twin(a)].values
        /\ TracesOf(replica[a].terminalHeads) # TracesOf(replica[Twin(a)].terminalHeads)
        /\ replica[a].undoStack # <<>>
        /\ replica[a].redoStack # <<>>

\* The operations of the exchange of "concurrent set and delete".
S3Exchanged == {Key(1, "A"), Key(2, "A"), Key(1, "B")}

\* C21 (a delete removes only the values it observed): with A doing set(1); delete() and
\* B concurrently set(2), a replica that has applied the three operations returns [2];
\* once a later set(1) of either actor is applied as well, it returns [1].
C21_DeleteRemovesObserved ==
    \A a \in DOMAIN replica :
        /\ Keys(AppliedSet(a)) = S3Exchanged => replica[a].values = <<2>>
        /\ \A later \in {Key(3, "A"), Key(3, "B")} :
               Keys(AppliedSet(a)) = S3Exchanged \cup {later} => replica[a].values = <<1>>

\* One later set(1) was made and both replicas have applied it.
C21_Witness ==
    /\ Cardinality(network) = 4
    /\ \A a \in DOMAIN replica :
           /\ AppliedSet(a) = network
           /\ replica[a].values = <<1>>
           /\ S3Exchanged \subseteq Keys(AppliedSet(a))

\* The operations of "different undos/redos resolve to the same terminal operation".
S7Operations ==
    {Key(1, "A"), Key(2, "A"), Key(3, "A"), Key(2, "B"), Key(3, "B"), Key(2, "C"),
     Key(3, "C")}

\* C22 (duplicates are kept): a replica that has applied all operations of A (set(1);
\* undo(); redo()), B (set(3); set(4)) and C (set(2); undo()), in whatever order, returns
\* [1, 4, 1] with the traces [[3@C, 1@A], [3@B], [3@A, 1@A]].
C22_DuplicatesKept ==
    \A a \in DOMAIN replica :
        Keys(AppliedSet(a)) = S7Operations
            => /\ replica[a].values = <<1, 4, 1>>
               /\ TracesOf(replica[a].terminalHeads)
                      = <<(<<Key(3, "C"), Key(1, "A")>>), (<<Key(3, "B")>>),
                          (<<Key(3, "A"), Key(1, "A")>>)>>

\* Every replica has applied all seven operations, and two heads resolve to A's set(1).
C22_Witness ==
    \A a \in DOMAIN replica :
        /\ Keys(AppliedSet(a)) = S7Operations
        /\ Len(replica[a].terminalHeads) = 3
        /\ replica[a].terminalHeads[1][1] = replica[a].terminalHeads[3][1]

\* C23 (concurrent undo): after the prefix that leaves both replicas at [5], the undo of
\* A anchors 3@A and the undo of B anchors 4@B; a replica that has applied the prefix and
\* A's restore returns [2], one with the prefix and B's restore [3, 4], and one with both
\* restores [3, 4, 2].
C23_ConcurrentUndo ==
    /\ \A op \in network :
           /\ op.opId = OpIdCreate(5, <<"A">>) => op.anchor = OpIdCreate(3, <<"A">>)
           /\ op.opId = OpIdCreate(5, <<"B">>) => op.anchor = OpIdCreate(4, <<"B">>)
    /\ \A a \in DOMAIN replica :
           /\ Keys(AppliedSet(a)) = S6Prefix => replica[a].values = <<5>>
           /\ Keys(AppliedSet(a)) = S6Prefix \cup {Key(5, "A")} => replica[a].values = <<2>>
           /\ Keys(AppliedSet(a)) = S6Prefix \cup {Key(5, "B")} => replica[a].values = <<3, 4>>
           /\ Keys(AppliedSet(a)) = S6Prefix \cup {Key(5, "A"), Key(5, "B")}
                  => replica[a].values = <<3, 4, 2>>

\* Both undos were made without syncing and every replica has applied both.
C23_Witness ==
    /\ MapHas(viewBefore, Key(5, "A")) /\ viewBefore[Key(5, "A")] = <<5>>
    /\ MapHas(viewBefore, Key(5, "B")) /\ viewBefore[Key(5, "B")] = <<5>>
    /\ \A a \in DOMAIN replica :
           /\ Keys(AppliedSet(a)) = S6Prefix \cup {Key(5, "A"), Key(5, "B")}
           /\ replica[a].values = <<3, 4, 2>>

\* The operations of "figure 1 (lower scenario)" before the undo.
S5Coloured == {Key(1, "A"), Key(2, "A"), Key(3, "B")}

\* C24 (undo, remote set, redo): with A's set(black); set(red) and B's set(green) on top
\* applied, a replica returns [green]; with A's undo applied as well [black]; with A's
\* redo applied as well [green].
C24_UndoRemoteSetRedo ==
    \A a \in DOMAIN replica :
        /\ Keys(AppliedSet(a)) = S5Coloured => replica[a].values = <<Green>>
        /\ Keys(AppliedSet(a)) = S5Coloured \cup {Key(4, "A")} => replica[a].values = <<Black>>
        /\ Keys(AppliedSet(a)) = S5Coloured \cup {Key(4, "A"), Key(5, "A")}
               => replica[a].values = <<Green>>

\* A's redo, a restore of A's undo, is applied at every replica.
C24_Witness ==
    /\ IsSent(OpIdCreate(5, <<"A">>))
    /\ Sent(OpIdCreate(5, <<"A">>)).anchor = OpIdCreate(4, <<"A">>)
    /\ \A a \in DOMAIN replica :
           /\ Keys(AppliedSet(a)) = S5Coloured \cup {Key(4, "A"), Key(5, "A")}
           /\ replica[a].values = <<Green>>

\* The operations of the linear history.
S1Operations == {Key(1, "A"), Key(2, "A"), Key(3, "A"), Key(4, "A"), Key(5, "A"), Key(6, "A")}

\* C25 (linear history): after set(1); set(2); set(3); undo(); undo(); redo() the actor
\* returns [2], the last element of its undo stack is the original set(2) and its redo
\* stack holds the restore of the first undo and nothing else.
C25_LinearHistory ==
    /\ \A a \in DOMAIN replica :
           Keys(AppliedSet(a)) = S1Operations => replica[a].values = <<2>>
    /\ Made(<<"A">>) = 6
           => /\ Len(replica[<<"A">>].undoStack) > 0
              /\ replica[<<"A">>].undoStack[Len(replica[<<"A">>].undoStack)]
                     = Sent(OpIdCreate(2, <<"A">>))
              /\ Sent(OpIdCreate(2, <<"A">>)).kind = OpKind.set
              /\ Sent(OpIdCreate(2, <<"A">>)).value = 2
              /\ replica[<<"A">>].redoStack = <<Sent(OpIdCreate(4, <<"A">>))>>
              /\ Sent(OpIdCreate(4, <<"A">>)).anchor = OpIdCreate(3, <<"A">>)

\* The six calls were made, the last one a redo of the second undo.
C25_Witness ==
    /\ Made(<<"A">>) = 6
    /\ Sent(OpIdCreate(6, <<"A">>)).anchor = OpIdCreate(5, <<"A">>)
    /\ replica[<<"A">>].values = <<2>>
    /\ Keys(AppliedSet(<<"B">>)) = S1Operations

\* Lexicographic order of strings: s differs from t first at a smaller character, or
\* is a proper prefix of t.
LexSmaller(s, t) ==
    \E k \in 0..Min(Len(s), Len(t)) :
        /\ SubSeq(s, 1, k) = SubSeq(t, 1, k)
        /\ \/ k = Len(s) /\ k < Len(t)
           \/ k < Len(s) /\ k < Len(t) /\ CharCode(s[k + 1]) < CharCode(t[k + 1])

\* C26 (OpId.compare is a total order): compare(a, b) is 0 exactly when a and b have the
\* same counter and actor, compare(b, a) is its opposite, a <= b <= c gives a <= c, the
\* smaller counter is smaller whatever the actors, and with equal counters the
\* lexicographically smaller actor id is smaller.
C26_CompareTotalOrder ==
    returned.fn = "compare"
        => /\ returned.result \in {-1, 0, 1}
           /\ returned.result = 0 <=> given.a = given.b
           /\ OpIdCompare(given.b, given.a) = -returned.result
           /\ \A c \in OpIds :
                  returned.result <= 0 /\ OpIdCompare(given.b, c) <= 0
                      => OpIdCompare(given.a, c) <= 0
           /\ OpIdCtr(given.a) < OpIdCtr(given.b) => returned.result = -1
           /\ OpIdCtr(given.a) > OpIdCtr(given.b) => returned.result = 1
           /\ OpIdCtr(given.a) = OpIdCtr(given.b)
                  => (returned.result = -1
                          <=> LexSmaller(OpIdActor(given.a), OpIdActor(given.b)))

\* Equal counters, and the actor id that is a proper prefix of the other is the smaller.
C26_Witness ==
    /\ returned.fn = "compare"
    /\ OpIdCtr(given.a) = OpIdCtr(given.b)
    /\ Len(OpIdActor(given.a)) < Len(OpIdActor(given.b))
    /\ returned.result = -1

\* C27 (OpId string round trip): fromString(toString(id)) = id for every OpId, actor ids
\* with the character "@" included, and two different OpIds have different strings.
C27_RoundTrip ==
    /\ given.fn = "toString" /\ returned.fn = "fromString" => returned.opId = given.a
    /\ returned.fn = "toString" /\ given.a # given.b => returned.a # returned.b

\* A string is malformed as an OpId when its counter part is not a base-10 integer or
\* its actor part is missing or empty.
IsBase10(str) == str # <<>> /\ \A i \in 1..Len(str) : IsDigit(str[i])

Malformed(str) ==
    \/ ~IsBase10(Split(str, <<>>)[1])
    \/ Len(Split(str, <<>>)) < 2
    \/ Split(str, <<>>)[2] = <<>>

\* C30 (malformed OpId strings are fatal): fromString of a malformed string raises an
\* error instead of returning an OpId.
C30_MalformedFatal ==
    returned.fn = "fromString" /\ Malformed(returned.str) => returned.completion = "throw"

\* Every operation applied before is applied after, unchanged.
Kept(before, after) ==
    \A key \in DOMAIN before.appliedOps :
        MapHas(after.appliedOps, key) /\ after.appliedOps[key] = before.appliedOps[key]

\* Operations that differ from old and carry its OpId.
Forgeries(old) ==
    ({SetOp(old.opId, <<>>, value) : value \in {NoValue, old.value + 1}}
         \cup {RestoreOp(old.opId, <<>>, other.opId) : other \in network}) \ {old}

\* C28 (append-only history): in every step every operation a replica had applied is
\* still applied afterwards, unchanged; and applying a different operation that carries
\* the OpId of an applied one changes nothing in the applied operations.
C28_AppendOnly ==
    /\ [][\A a \in DOMAIN replica : Kept(replica[a], replica'[a])]_vars
    /\ [](\A a \in DOMAIN replica : \A old \in AppliedSet(a) : \A forged \in Forgeries(old) :
              ApplyOps(Entered(a), <<forged>>).appliedOps = replica[a].appliedOps)

\* A replica has applied operations of both actors and holds an operation in its lobby.
C28_Witness ==
    \E a \in DOMAIN replica :
        /\ \E old \in AppliedSet(a) : IsForeign(a, old) /\ Forgeries(old) # {}
        /\ \E old \in AppliedSet(a) : ~IsForeign(a, old)
        /\ LobbySet(a) # {}

\* The calls replica a can make that generate an operation.
Calls(a) ==
    {PicomergeSet(Entered(a), FreshValue(a)), PicomergeDelete(Entered(a)),
     PicomergeUndo(Entered(a)), PicomergeRedo(Entered(a))}

\* C29 (OpId uniqueness): no two different operations returned by set, delete, undo or
\* redo carry the same OpId, the counter of an operation a replica generates is larger
\* than the counters of all operations it generated before, and a replica has applied
\* at most one operation per OpId: under the string of an OpId it holds the operation
\* that was returned with that OpId.
C29_OpIdUnique ==
    /\ \A op \in network : \A other \in network : op.opId = other.opId => op = other
    /\ \A a \in DOMAIN replica : \A made \in Calls(a) :
           made.op # NoOp
               => /\ OpIdActor(made.op.opId) = a
                  /\ \A old \in network :
                         OpIdActor(old.opId) = a => OpIdCtr(made.op.opId) > OpIdCtr(old.opId)
    /\ \A a \in DOMAIN replica : \A key \in DOMAIN replica[a].appliedOps :
           /\ OpIdToString(replica[a].appliedOps[key].opId) = key
           /\ replica[a].appliedOps[key] \in network

\* Both actors generated an operation with the same counter, one of them generated
\* another one after applying the other actor's, and a replica has applied all three.
C29_Witness ==
    \E a \in DOMAIN replica : \E op \in AppliedSet(a) : \E other \in AppliedSet(a) :
        \E later \in AppliedSet(a) :
            /\ OpIdCtr(op.opId) = OpIdCtr(other.opId)
            /\ OpIdActor(op.opId) # OpIdActor(other.opId)
            /\ OpIdActor(later.opId) = OpIdActor(op.opId)
            /\ OpIdToString(other.opId) \in Range(later.preds)

\* C31 (invariant violation is surfaced): apply of a restore operation whose preds are
\* all applied and whose anchor is not applied raises the error; the operation is
\* neither applied nor put into the lobby.
C31_AnchorMissingRaises ==
    \A a \in DOMAIN replica : \A r \in Corrupt(a) :
        /\ ApplyOps(Entered(a), <<r>>).err
        /\ ~MapHas(ApplyOps(Entered(a), <<r>>).appliedOps, OpIdToString(r.opId))
        /\ \A i \in 1..Len(ApplyOps(Entered(a), <<r>>).lobby) :
               ApplyOps(Entered(a), <<r>>).lobby[i] # r

\* An apply has just raised the error at a replica that has applied operations of both
\* actors.
C31_Witness ==
    \E a \in DOMAIN replica :
        /\ replica[a].err
        /\ \E op \in AppliedSet(a) : IsForeign(a, op)
        /\ \E op \in AppliedSet(a) : ~IsForeign(a, op)

\* C39 (failure atomicity of apply): when apply raises the anchor-not-found error for a
\* causally ready restore operation, the replica is left as it was before the call.
C39_FailureAtomicity ==
    \A a \in DOMAIN replica : \A r \in Corrupt(a) :
        ApplyOps(Entered(a), <<r>>).err
            => ApplyOps(Entered(a), <<r>>) = [Entered(a) EXCEPT !.err = TRUE]


\* The lobby and the applied operations of a history are disjoint, the lobby holds no
\* operation twice, and none of its operations has all its preds applied.
LobbySettled(st) ==
    /\ \A i \in 1..Len(st.lobby) :
           /\ ~MapHas(st.appliedOps, OpIdToString(st.lobby[i].opId))
           /\ \E p \in 1..Len(st.lobby[i].preds) : ~MapHas(st.appliedOps, st.lobby[i].preds[p])
           /\ \A j \in 1..Len(st.lobby) : st.lobby[i].opId = st.lobby[j].opId => i = j

\* The operations a history holds, applied or waiting.
Held(st) == {st.appliedOps[key] : key \in DOMAIN st.appliedOps} \cup Range(st.lobby)

\* C32 (lobby fixed point): after every call no operation in the lobby has all its preds
\* applied and no OpId is both in the lobby and applied; an operation handed to apply
\* is afterwards in the lobby or applied, and every operation a replica held before a
\* call it still holds after it, once.
C32_LobbyFixedPoint ==
    /\ [](\A a \in DOMAIN replica :
             /\ LobbySettled(replica[a])
             /\ \A op \in network :
                    /\ op \in Held(ApplyOps(Entered(a), <<op>>))
                    /\ Held(replica[a]) \subseteq Held(ApplyOps(Entered(a), <<op>>))
                    /\ LobbySettled(ApplyOps(Entered(a), <<op>>)))
    /\ [][\A a \in DOMAIN replica : Held(replica[a]) \subseteq Held(replica'[a])]_vars

\* A replica holds two operations in its lobby, one the predecessor of the other, and
\* apply of the operation it misses empties the lobby: both are applied by the re-scans.
C32_Witness ==
    \E a \in DOMAIN replica : \E o2 \in LobbySet(a) : \E o3 \in LobbySet(a) :
        \E op \in network \ Known(a) :
            /\ OpIdToString(o2.opId) \in Range(o3.preds)
            /\ ApplyOps(Entered(a), <<op>>).lobby = <<>>
            /\ Keys({o2, o3}) \subseteq DOMAIN ApplyOps(Entered(a), <<op>>).appliedOps


\* The counters of the applied operations of replica a.
AppliedCtrs(a) == {OpIdCtr(op.opId) : op \in AppliedSet(a)}

\* C33 (Lamport clock): after every call the counter of a replica is the largest
\* counter among its applied operations (0 when it has applied none, whatever waits in
\* the lobby) and no step decreases it; an operation the replica generates gets that
\* counter plus one, so its OpId is greater than the OpId of every applied operation.
C33_LamportClock ==
    /\ [](\A a \in DOMAIN replica :
             /\ \A ctr \in AppliedCtrs(a) : ctr <= replica[a].ctr
             /\ replica[a].ctr \in AppliedCtrs(a) \cup {0}
             /\ AppliedCtrs(a) = {} => replica[a].ctr = 0
             /\ \A made \in Calls(a) :
                    made.op # NoOp
                        => /\ OpIdCtr(made.op.opId) = replica[a].ctr + 1
                           /\ \A op \in AppliedSet(a) : OpIdCompare(made.op.opId, op.opId) > 0)
    /\ [][\A a \in DOMAIN replica : replica'[a].ctr >= replica[a].ctr]_vars

\* A replica applied an operation of the other actor, generated one on top of it, and
\* holds in its lobby an operation with a counter larger than its own.
C33_Witness ==
    \E a \in DOMAIN replica :
        /\ \E own \in AppliedSet(a) : \E other \in AppliedSet(a) :
               /\ ~IsForeign(a, own) /\ IsForeign(a, other)
               /\ OpIdToString(other.opId) \in Range(own.preds)
        /\ \E op \in LobbySet(a) : OpIdCtr(op.opId) > replica[a].ctr


\* The OpIds operation op refers to: its preds and, for a restore, its anchor.
Refs(op) ==
    {OpIdFromString(op.preds[i]) : i \in 1..Len(op.preds)}
        \cup (IF op.kind = OpKind.restore THEN {op.anchor} ELSE {})

\* The OpIds reached from opIds over at most n references between generated operations.
RECURSIVE Reached(_, _)
Reached(opIds, n) ==
    IF n = 0 THEN opIds
    ELSE Reached(opIds \cup UNION {Refs(op) : op \in {o \in network : o.opId \in opIds}}, n - 1)

\* C34 (acyclicity): each pred and the anchor of an operation generated by set, delete,
\* undo or redo has a strictly smaller OpId than the operation, and no operation is
\* reached from itself over pred and anchor references.
C34_Acyclic ==
    [](\A op \in network :
          /\ \A opId \in Refs(op) : OpIdCompare(opId, op.opId) < 0
          /\ op.opId \notin Reached(Refs(op), Cardinality(network)))

\* A redo has been applied whose anchor is the undo of a set made on top of another
\* actor's operation: a chain of references across both actors.
C34_Witness ==
    \E redo \in network : \E undo \in network : \E set \in network :
        /\ redo.kind = OpKind.restore /\ redo.anchor = undo.opId
        /\ undo.kind = OpKind.restore /\ undo.anchor = set.opId
        /\ set.kind = OpKind.set
        /\ \E opId \in Refs(set) : OpIdActor(opId) # OpIdActor(set.opId)
        /\ \E a \in DOMAIN replica :
               IsForeign(a, redo) /\ MapHas(replica[a].appliedOps, OpIdToString(redo.opId))


\* C40 (the cache bounds traversal): on a replica created with useCache = true every
\* applied restore operation has a cache entry, and every entry of terminalHeads has an
\* opIdTrace of at most 2 elements and a resolutionDepth of at most 2.
C40_CacheBoundsTraversal ==
    \A t \in Twins :
        /\ \A op \in AppliedSet(t) :
               op.kind = OpKind.restore => MapHas(replica[t].cache, OpIdToString(op.opId))
        /\ \A i \in 1..Len(replica[t].terminalHeads) :
               /\ Len(replica[t].terminalHeads[i][2].opIdTrace) <= 2
               /\ replica[t].terminalHeads[i][2].resolutionDepth <= 2

\* After a chain of undo and redo operations the replica without the cache holds an
\* entry of resolutionDepth 3 or more, its twin with the cache the same terminal
\* operation at depth 2.
C40_Witness ==
    \E a \in Actors :
        /\ \E i \in 1..Len(replica[a].terminalHeads) :
               replica[a].terminalHeads[i][2].resolutionDepth >= 3
        /\ TerminalOpsOf(replica[Twin(a)].terminalHeads) = TerminalOpsOf(replica[a].terminalHeads)
        /\ \E i \in 1..Len(replica[Twin(a)].terminalHeads) :
               replica[Twin(a)].terminalHeads[i][2].resolutionDepth = 2


\* The operations the single actor returned, in the order of its calls.
RECURSIVE Ascending(_)
Ascending(ops) ==
    IF ops = {} THEN <<>>
    ELSE LET first == CHOOSE op \in ops : \A other \in ops : OpIdCompare(op.opId, other.opId) <= 0
         IN  <<first>> \o Ascending(ops \ {first})

\* The call that returned op: undo anchors a set operation, redo a restore operation.
CallOf(op) ==
    IF op.kind = OpKind.set THEN "set"
    ELSE IF \E anchor \in network : anchor.opId = op.anchor /\ anchor.kind = OpKind.restore
    THEN "redo" ELSE "undo"

\* The calls of the single actor so far that returned an operation, oldest first.
CallLog == [i \in 1..Cardinality(network) |-> CallOf(Ascending(network)[i])]

\* The calls from..to of the log are all calls of fn.
Run(fn, from, to) == \A i \in from..to : CallLog[i] = fn

\* The value written by the i-th call.
Written(i) == Ascending(network)[i].value

\* The resolutionDepth of the entries of terminalHeads().
Depths == [i \in 1..Len(replica[Solo].terminalHeads) |->
              replica[Solo].terminalHeads[i][2].resolutionDepth]

\* The log is sets calls of set, then undos of undo, then redos of redo.
Walk(sets, undos, redos) ==
    /\ Cardinality(network) = sets + undos + redos
    /\ Run("set", 1, sets)
    /\ Run("undo", sets + 1, sets + undos)
    /\ Run("redo", sets + undos + 1, sets + undos + redos)

\* C35 (single-actor walk): after sets calls of set, the k-th consecutive undo leaves
\* the value of the set before the last k, the last one leaves the register empty and
\* one more undo returns nothing; then the k-th consecutive redo leaves the value of
\* the k-th set and a redo after the last one returns nothing.
C35_SingleActorWalk ==
    \A sets \in 1..MaxSoloOps :
        /\ \A k \in 1..sets :
               Walk(sets, k, 0)
                   => /\ k < sets => replica[Solo].values = <<Written(sets - k)>>
                      /\ k = sets => /\ replica[Solo].values = <<>>
                                      /\ PicomergeUndo(Entered(Solo)).op = NoOp
                                      /\ AfterCall(PicomergeUndo(Entered(Solo))) = replica[Solo]
        /\ \A k \in 1..sets :
               Walk(sets, sets, k)
                   => /\ replica[Solo].values = <<Written(k)>>
                      /\ k = sets => /\ PicomergeRedo(Entered(Solo)).op = NoOp
                                      /\ AfterCall(PicomergeRedo(Entered(Solo))) = replica[Solo]

\* Three sets, three undos (the register is empty) and three redos have been made.
C35_Witness ==
    /\ Walk(3, 3, 3)
    /\ replica[Solo].values = <<Written(3)>>
    /\ Written(1) # Written(2) /\ Written(2) # Written(3)


\* The log is sets calls of set and then n calls, undo and redo in turn.
Alternating(sets, n) ==
    /\ Cardinality(network) = sets + n
    /\ Run("set", 1, sets)
    /\ \A i \in 1..n : CallLog[sets + i] = (IF i % 2 = 1 THEN "undo" ELSE "redo")

Fig7Coloured == {Key(1, "A"), Key(2, "A"), Key(3, "B")}

\* C38 (undo of an already-undone neighbourhood, figure 7): a replica that has applied
\* A's set(black), set(red) and B's set(green) shows green; with A's undo it shows
\* black; with B's undo, generated after A's undo was applied, it shows red: B's undo
\* restores the view before its own set(green) although set(red) had been undone.
C38_UndoAfterUndo ==
    /\ \A a \in DOMAIN replica :
           /\ Keys(AppliedSet(a)) = Fig7Coloured => replica[a].values = <<Green>>
           /\ Keys(AppliedSet(a)) = Fig7Coloured \cup {Key(4, "A")}
                  => replica[a].values = <<Black>>
           /\ Keys(AppliedSet(a)) = Fig7Coloured \cup {Key(4, "A"), Key(5, "B")}
                  => replica[a].values = <<Red>>
    /\ \A op \in network :
           /\ op.opId = OpIdCreate(4, <<"A">>) => op.anchor = OpIdCreate(2, <<"A">>)
           /\ op.opId = OpIdCreate(5, <<"B">>)
                  => op.anchor = OpIdCreate(3, <<"B">>) /\ op.preds = <<Key(4, "A")>>

\* A's undo has been delivered to B, B's undo to A, and both show red.
C38_Witness ==
    \A a \in {<<"A">>, <<"B">>} :
        /\ Keys(AppliedSet(a)) = Fig7Coloured \cup {Key(4, "A"), Key(5, "B")}
        /\ replica[a].values = <<Red>>

=============================================================================
